---- MODULE Spec2Model ----
(***************************************************************************)
(* Model of poem's ACME client (src/poem/src/listener/acme/client.rs).     *)
(*                                                                         *)
(* The client is built by try_new (directory GET, nonce GET, signed        *)
(* newAccount POST) and then offers five facade operations on &self, each  *)
(* of which awaits get_nonce and then one signed jose request.  Every      *)
(* .await is a suspension point, so futures driven by different callers on *)
(* the same client interleave between their network round trips.           *)
(*                                                                         *)
(* Strings whose content the code inspects (header values, base64 text)    *)
(* are sequences; strings the code only copies (URLs, domains) are atoms.  *)
(***************************************************************************)
EXTENDS Integers, Sequences, FiniteSets, TLC

(***************************************************************************)
(* Bounds of the model.                                                    *)
(***************************************************************************)
NumCallers == 2   \* callers that drive facade futures on the shared client
MaxInv == 2       \* facade invocations started in one behaviour

Callers == 1..NumCallers

(***************************************************************************)
(* Option<T> and IoResult<T>.                                              *)
(***************************************************************************)
None == {}
Some(x) == {x}
Unwrap(o) == CHOOSE v \in o : TRUE

Ok(v) == [ok |-> TRUE, val |-> v]
Err(msg) == [ok |-> FALSE, err |-> msg]

(***************************************************************************)
(* http: StatusCode::is_success and HeaderValue::to_str.  A header value   *)
(* is a sequence of bytes; to_str yields it as text only when every byte   *)
(* is visible ASCII (or a tab).                                            *)
(***************************************************************************)
is_success(status) == status >= 200 /\ status < 300

is_visible_ascii(b) == (b >= 32 /\ b < 127) \/ b = 9

to_str(value) ==
    IF \A i \in 1..Len(value) : is_visible_ascii(value[i])
    THEN Some(value) ELSE None

HeaderGet(headers, name) ==
    IF name \in DOMAIN headers THEN Some(headers[name]) ELSE None

NoHeaders == [h \in {} |-> <<>>]

(***************************************************************************)
(* The inputs of the model: the directory URL and key pair given to        *)
(* try_new, and the arguments callers pass to the facade.                  *)
(***************************************************************************)
DirectoryUrl == "https://ca/directory"
KeyPairs == {"kp"}

GoodDirectoryBody ==
    [f \in {"newNonce", "newAccount", "newOrder"} |->
        CASE f = "newNonce" -> "https://ca/acme/new-nonce"
          [] f = "newAccount" -> "https://ca/acme/new-account"
          [] f = "newOrder" -> "https://ca/acme/new-order"]

PartialDirectoryBody ==
    [f \in {"newNonce", "newAccount"} |-> GoodDirectoryBody[f]]

Urls == {"https://ca/acme/authz/1", "https://ca/acme/cert/1"}
DomainLists ==
    { <<"example.com">>,
      <<"example.com", "www.example.com">>,
      <<"www.example.com", "example.com">>,
      <<"example.com", "example.com">>,
      <<"www.example.com", "example.com", "www.example.com">> }
CsrInputs == { <<>>, <<255>>, <<251, 240>>, <<77, 97, 110>>, <<0, 16, 131, 16>> }

(***************************************************************************)
(* base64::encode_config(bytes, URL_SAFE_NO_PAD): RFC 4648 section 5       *)
(* alphabet, three bytes to four characters, the last partial group        *)
(* emitted without '=' padding.                                            *)
(***************************************************************************)
URL_SAFE ==
    << "A","B","C","D","E","F","G","H","I","J","K","L","M",
       "N","O","P","Q","R","S","T","U","V","W","X","Y","Z",
       "a","b","c","d","e","f","g","h","i","j","k","l","m",
       "n","o","p","q","r","s","t","u","v","w","x","y","z",
       "0","1","2","3","4","5","6","7","8","9","-","_" >>

Sextet(n) == URL_SAFE[n + 1]

RECURSIVE encode_config(_)
encode_config(bytes) ==
    IF Len(bytes) = 0 THEN <<>>
    ELSE IF Len(bytes) = 1 THEN
        << Sextet(bytes[1] \div 4),
           Sextet((bytes[1] % 4) * 16) >>
    ELSE IF Len(bytes) = 2 THEN
        << Sextet(bytes[1] \div 4),
           Sextet((bytes[1] % 4) * 16 + bytes[2] \div 16),
           Sextet((bytes[2] % 16) * 4) >>
    ELSE
        << Sextet(bytes[1] \div 4),
           Sextet((bytes[1] % 4) * 16 + bytes[2] \div 16),
           Sextet((bytes[2] % 16) * 4 + bytes[3] \div 64),
           Sextet(bytes[3] % 64) >>
        \o encode_config(SubSeq(bytes, 4, Len(bytes)))

(***************************************************************************)
(* protocol.rs request bodies.                                             *)
(***************************************************************************)
Identifier(domain) == [ty |-> "dns", value |-> domain]

\* mutant: the identifier list is built back to front
NewOrderRequest_reversed(domains) ==
    [identifiers |-> [i \in 1..Len(domains) |->
                        Identifier(domains[Len(domains) + 1 - i])]]

NewOrderRequest(domains) ==
    [identifiers |-> [i \in 1..Len(domains) |-> Identifier(domains[i])]]

\* mutant: the last partial group is padded with '=' to four characters
CsrRequest_padded(csr) ==
    [csr |-> encode_config(csr)
             \o [i \in 1..((3 - (Len(csr) % 3)) % 3) |-> "="]]

CsrRequest(csr) == [csr |-> encode_config(csr)]

NewAccountRequest ==
    [only_return_existing |-> FALSE,
     terms_of_service_agreed |-> TRUE,
     contact |-> <<>>]

EmptyJsonObject == [f \in {} |-> 0]

(***************************************************************************)
(* State.                                                                  *)
(***************************************************************************)
VARIABLES
    ctor,      \* the try_new future: its position and its locals
    client,    \* Option<AcmeClient>: None until try_new returns Ok(Self)
    calls,     \* per caller, the facade future it drives: position and locals
    invs,      \* the facade invocations started so far, how each ended
               \* and what it returned
    log,       \* the requests issued over the transport, in issue order
    reply,     \* the response the most recent round trip resolved to
    ca_nonces  \* CA: how many replay nonces it has handed out

vars == <<ctor, client, calls, invs, log, reply, ca_nonces>>

(***************************************************************************)
(* The transport (hyper Client) and the CA behind it.  A response is what  *)
(* client.get / the signed POST resolves to: a transport error, or a       *)
(* status with headers and a body.  The CA hands out a fresh replay nonce  *)
(* each time it answers the nonce endpoint with the header.                *)
(***************************************************************************)
NoBody == [read_ok |-> TRUE, json |-> None, raw |-> "empty"]
BrokenBody == [read_ok |-> FALSE, json |-> None, raw |-> "empty"]
TextBody(raw) == [read_ok |-> TRUE, json |-> None, raw |-> raw]
JsonBody(obj, raw) == [read_ok |-> TRUE, json |-> Some(obj), raw |-> raw]

TransportError ==
    [sent |-> FALSE, status |-> 0, headers |-> NoHeaders, body |-> NoBody]
Response(status, headers, body) ==
    [sent |-> TRUE, status |-> status, headers |-> headers, body |-> body]

DirectoryResponses ==
    { TransportError,
      Response(500, NoHeaders, JsonBody(GoodDirectoryBody, "directory")),
      Response(200, NoHeaders, TextBody("<html>")),
      Response(200, NoHeaders, JsonBody(PartialDirectoryBody, "partial")),
      Response(200, NoHeaders, JsonBody(GoodDirectoryBody, "directory")) }

FreshNonce(n) == <<110, 49 + n>>
FreshNonceResponse(n) ==
    Response(200, [h \in {"replay-nonce"} |-> FreshNonce(n)], NoBody)
NonceResponses(n) ==
    { TransportError,
      Response(500, NoHeaders, NoBody),
      Response(200, NoHeaders, NoBody),
      Response(204, [h \in {"replay-nonce"} |-> <<195, 169>>], NoBody),
      FreshNonceResponse(n) }

AccountLocations == { <<97, 99, 99, 116, 47, 49>>, <<97, 99, 99, 116, 47, 50>> }
AccountResponses ==
    { TransportError,
      Response(400, NoHeaders, JsonBody([type |-> "badNonce"], "problem")),
      Response(201, NoHeaders, JsonBody([status |-> "valid"], "account")),
      Response(200, [h \in {"location"} |-> <<195, 169>>],
               JsonBody([status |-> "valid"], "account")) }
    \cup { Response(201, [h \in {"location"} |-> loc],
                    JsonBody([status |-> "valid"], "account"))
           : loc \in AccountLocations }

OrderJson == [shape |-> "NewOrderResponse", status |-> "pending"]
AuthorizationJson == [shape |-> "FetchAuthorizationResponse", status |-> "pending"]
SignedResponses ==
    { TransportError,
      Response(400, NoHeaders, JsonBody([type |-> "badNonce"], "problem")),
      Response(200, NoHeaders, BrokenBody),
      Response(200, NoHeaders, TextBody("-----BEGIN CERTIFICATE-----")),
      Response(200, NoHeaders, JsonBody(OrderJson, "order")),
      Response(200, NoHeaders, JsonBody(AuthorizationJson, "authorization")) }

(***************************************************************************)
(* Requests as they leave the client.  An unsigned GET has no protected    *)
(* header; the signer's POST carries the protected header (nonce, target   *)
(* url, and the account id or else the public key) and the payload.        *)
(***************************************************************************)
GetRequest(uri) ==
    [method |-> "GET", uri |-> uri, protected |-> None, payload |-> None]

jose_request(key_pair, kid, nonce, uri, payload) ==
    [method |-> "POST", uri |-> uri,
     protected |-> Some([nonce |-> nonce, url |-> uri, kid |-> kid,
                         jwk |-> IF kid = None THEN Some(key_pair) ELSE None]),
     payload |-> payload]

jose_response(resp) ==
    IF ~resp.sent THEN Err("failed to send request")
    ELSE IF ~is_success(resp.status) THEN Err("unexpected status code")
    ELSE Ok(resp)

jose_response_json(resp, shape) ==
    LET r == jose_response(resp) IN
    IF ~r.ok THEN r
    ELSE IF ~resp.body.read_ok THEN Err("failed to read response")
    ELSE IF resp.body.json = None THEN Err("failed to parse response")
    ELSE IF "shape" \notin DOMAIN Unwrap(resp.body.json)
              \/ Unwrap(resp.body.json).shape # shape
         THEN Err("failed to parse response")
    ELSE Ok(Unwrap(resp.body.json))

(***************************************************************************)
(* get_directory, get_nonce and create_acme_account: what each makes of    *)
(* the response it awaited.                                                *)
(***************************************************************************)
into_json_Directory(body) ==
    IF ~body.read_ok THEN Err("read body")
    ELSE IF body.json = None THEN Err("parse json")
    ELSE LET obj == Unwrap(body.json) IN
         IF {"newNonce", "newAccount", "newOrder"} \subseteq DOMAIN obj
         THEN Ok([new_nonce |-> obj["newNonce"],
                  new_account |-> obj["newAccount"],
                  new_order |-> obj["newOrder"]])
         ELSE Err("missing field")

\* mutant: the status check of get_directory is missing
get_directory_nostatus(resp) ==
    IF ~resp.sent THEN Err("failed to load directory: transport")
    ELSE LET directory == into_json_Directory(resp.body) IN
         IF directory.ok THEN directory
         ELSE Err("failed to load directory: body")

\* mutant: a body that does not decode yields an empty Directory
get_directory_default(resp) ==
    IF ~resp.sent THEN Err("failed to load directory: transport")
    ELSE IF ~is_success(resp.status) THEN Err("failed to load directory: status")
    ELSE LET directory == into_json_Directory(resp.body) IN
         IF directory.ok THEN directory
         ELSE Ok([new_nonce |-> "", new_account |-> "", new_order |-> ""])

get_directory(resp) ==
    IF ~resp.sent THEN Err("failed to load directory: transport")
    ELSE IF ~is_success(resp.status) THEN Err("failed to load directory: status")
    ELSE LET directory == into_json_Directory(resp.body) IN
         IF directory.ok THEN directory
         ELSE Err("failed to load directory: body")

\* mutant: a response without a replay-nonce header fails the nonce fetch
get_nonce_strict(resp) ==
    IF ~resp.sent THEN Err("failed to get nonce")
    ELSE IF ~is_success(resp.status) THEN Err("failed to load directory: status")
    ELSE LET header == HeaderGet(resp.headers, "replay-nonce")
             text == IF header = None THEN None ELSE to_str(Unwrap(header))
         IN IF text = None THEN Err("failed to get nonce") ELSE Ok(Unwrap(text))

\* mutant: the status check of get_nonce is missing
get_nonce_nostatus(resp) ==
    IF ~resp.sent THEN Err("failed to get nonce")
    ELSE LET header == HeaderGet(resp.headers, "replay-nonce")
             text == IF header = None THEN None ELSE to_str(Unwrap(header))
         IN Ok(IF text = None THEN <<>> ELSE Unwrap(text))

get_nonce(resp) ==
    IF ~resp.sent THEN Err("failed to get nonce")
    ELSE IF ~is_success(resp.status) THEN Err("failed to load directory: status")
    ELSE LET header == HeaderGet(resp.headers, "replay-nonce")
             text == IF header = None THEN None ELSE to_str(Unwrap(header))
         IN Ok(IF text = None THEN <<>> ELSE Unwrap(text))

\* mutant: a missing Location header defaults to the empty account id
account_kid_default(resp) ==
    LET r == jose_response(resp) IN
    IF ~r.ok THEN r
    ELSE LET header == HeaderGet(resp.headers, "location")
             text == IF header = None THEN None ELSE to_str(Unwrap(header))
         IN Ok(IF text = None THEN <<>> ELSE Unwrap(text))

account_kid(resp) ==
    LET r == jose_response(resp) IN
    IF ~r.ok THEN r
    ELSE LET header == HeaderGet(resp.headers, "location")
             text == IF header = None THEN None ELSE to_str(Unwrap(header))
         IN IF text = None THEN Err("unable to get account id")
            ELSE Ok(Unwrap(text))

(***************************************************************************)
(* Initial state: try_new has been called with its arguments and has not   *)
(* run yet; no client value exists; no caller holds a facade future.       *)
(***************************************************************************)
NoCall ==
    [pc |-> "idle", op |-> "none", inv |-> 0, args |-> <<>>, nonce |-> None,
     resp |-> None]

Init ==
    /\ ctor \in { [pc |-> "get_directory", directory_url |-> DirectoryUrl,
                   key_pair |-> kp, directory |-> None, nonce |-> None,
                   ret |-> None] : kp \in KeyPairs }
    /\ client = None
    /\ calls = [c \in Callers |-> NoCall]
    /\ invs = <<>>
    /\ log = <<>>
    /\ reply = TransportError
    /\ ca_nonces = 0

Exchange(inv, req, got) == [inv |-> inv, req |-> req, got |-> got]

GotNonce(r) == IF r.ok THEN Some(r.val) ELSE None

CaAfter(resp) ==
    IF resp = FreshNonceResponse(ca_nonces) THEN ca_nonces + 1 ELSE ca_nonces

(***************************************************************************)
(* try_new: get_directory(...).await?                                      *)
(***************************************************************************)
try_new_get_directory(resp) ==
    /\ ctor.pc = "get_directory"
    /\ log' = Append(log, Exchange(0, GetRequest(ctor.directory_url), None))
    /\ LET directory == get_directory(resp) IN
       ctor' = IF directory.ok
               THEN [ctor EXCEPT !.pc = "get_nonce",
                                 !.directory = Some(directory.val)]
               ELSE [ctor EXCEPT !.pc = "returned", !.ret = Some(directory)]
    /\ reply' = resp
    /\ UNCHANGED <<client, calls, invs, ca_nonces>>

(***************************************************************************)
(* create_acme_account: let nonce = get_nonce(client, directory).await?    *)
(***************************************************************************)
create_acme_account_get_nonce(resp) ==
    /\ ctor.pc = "get_nonce"
    /\ LET directory == Unwrap(ctor.directory)
           nonce == get_nonce(resp)
       IN /\ log' = Append(log, Exchange(0, GetRequest(directory.new_nonce),
                                         GotNonce(nonce)))
          /\ ctor' = IF nonce.ok
                     THEN [ctor EXCEPT !.pc = "request",
                                       !.nonce = Some(nonce.val)]
                     ELSE [ctor EXCEPT !.pc = "returned", !.ret = Some(nonce)]
    /\ reply' = resp
    /\ ca_nonces' = CaAfter(resp)
    /\ UNCHANGED <<client, calls, invs>>

(***************************************************************************)
(* create_acme_account: the signed newAccount request and the Location     *)
(* header; then try_new returns Ok(Self { client, directory, key_pair,     *)
(* kid }) or the error.                                                    *)
(***************************************************************************)
create_acme_account_request(resp) ==
    /\ ctor.pc = "request"
    /\ LET directory == Unwrap(ctor.directory)
           kid == account_kid(resp)
       IN /\ log' = Append(log,
                 Exchange(0, jose_request(ctor.key_pair, None,
                                          Unwrap(ctor.nonce),
                                          directory.new_account,
                                          Some(NewAccountRequest)), None))
          /\ IF kid.ok
             THEN /\ client' = Some([directory |-> directory,
                                     key_pair |-> ctor.key_pair,
                                     kid |-> kid.val])
                  /\ ctor' = [ctor EXCEPT !.pc = "returned",
                                          !.ret = Some(Ok("Self"))]
             ELSE /\ client' = client
                  /\ ctor' = [ctor EXCEPT !.pc = "returned", !.ret = Some(kid)]
    /\ reply' = resp
    /\ UNCHANGED <<calls, invs, ca_nonces>>

(***************************************************************************)
(* A facade method is callable on a client value only (&self); a caller    *)
(* drives one future at a time.  The first await of every method is        *)
(* get_nonce(&self.client, &self.directory); `?` returns its error.        *)
(***************************************************************************)
\* mutant: after a failed operation the client refuses further operations
Invocable_poisoned(c) ==
    /\ client # None
    /\ calls[c].pc = "idle"
    /\ Len(invs) < MaxInv
    /\ \A k \in DOMAIN invs : invs[k].state # "err"

Invocable(c) ==
    /\ client # None
    /\ calls[c].pc = "idle"
    /\ Len(invs) < MaxInv

\* mutant: every operation loads the directory again instead of a nonce
AwaitNonce_reload(c, op, args, resp) ==
    LET self == Unwrap(client)
        inv == Len(invs) + 1
        nonce == get_nonce(resp)
    IN /\ log' = Append(log, Exchange(inv, GetRequest(ctor.directory_url),
                                      GotNonce(nonce)))
       /\ invs' = Append(invs, [op |-> op, args |-> args,
                                state |-> IF nonce.ok THEN "pending" ELSE "err",
                                out |-> None])
       /\ calls' = [calls EXCEPT ![c] =
                      IF nonce.ok
                      THEN [pc |-> "request", op |-> op, inv |-> inv,
                            args |-> args, nonce |-> Some(nonce.val),
                            resp |-> None]
                      ELSE NoCall]
       /\ reply' = resp
       /\ ca_nonces' = CaAfter(resp)
       /\ UNCHANGED <<ctor, client>>

AwaitNonce(c, op, args, resp) ==
    LET self == Unwrap(client)
        inv == Len(invs) + 1
        nonce == get_nonce(resp)
    IN /\ log' = Append(log, Exchange(inv, GetRequest(self.directory.new_nonce),
                                      GotNonce(nonce)))
       /\ invs' = Append(invs, [op |-> op, args |-> args,
                                state |-> IF nonce.ok THEN "pending" ELSE "err",
                                out |-> None])
       /\ calls' = [calls EXCEPT ![c] =
                      IF nonce.ok
                      THEN [pc |-> "request", op |-> op, inv |-> inv,
                            args |-> args, nonce |-> Some(nonce.val),
                            resp |-> None]
                      ELSE NoCall]
       /\ reply' = resp
       /\ ca_nonces' = CaAfter(resp)
       /\ UNCHANGED <<ctor, client>>

Awaiting(c, op) == calls[c].pc = "request" /\ calls[c].op = op

Return(c, req, resp, ret) ==
    /\ log' = Append(log, Exchange(calls[c].inv, req, None))
    /\ reply' = resp
    /\ invs' = [invs EXCEPT ![calls[c].inv].state =
                                 IF ret.ok THEN "ok" ELSE "err",
                             ![calls[c].inv].out =
                                 IF ret.ok THEN Some(ret.val) ELSE None]
    /\ calls' = [calls EXCEPT ![c] = NoCall]
    /\ UNCHANGED <<ctor, client, ca_nonces>>

(***************************************************************************)
(* new_order                                                               *)
(***************************************************************************)
new_order_get_nonce(c, domains, resp) ==
    /\ Invocable(c)
    /\ AwaitNonce(c, "new_order", [domains |-> domains], resp)

\* mutant: the nonce drawn during construction is kept and used again
new_order_request_cached(c, resp) ==
    /\ Awaiting(c, "new_order")
    /\ LET self == Unwrap(client) IN
       Return(c,
              jose_request(self.key_pair, Some(self.kid),
                           Unwrap(ctor.nonce), self.directory.new_order,
                           Some(NewOrderRequest(calls[c].args.domains))),
              resp, jose_response_json(resp, "NewOrderResponse"))

new_order_request(c, resp) ==
    /\ Awaiting(c, "new_order")
    /\ LET self == Unwrap(client) IN
       Return(c,
              jose_request(self.key_pair, Some(self.kid),
                           Unwrap(calls[c].nonce), self.directory.new_order,
                           Some(NewOrderRequest(calls[c].args.domains))),
              resp, jose_response_json(resp, "NewOrderResponse"))

(***************************************************************************)
(* fetch_authorization                                                     *)
(***************************************************************************)
fetch_authorization_get_nonce(c, auth_url, resp) ==
    /\ Invocable(c)
    /\ AwaitNonce(c, "fetch_authorization", [auth_url |-> auth_url], resp)

\* mutant: the POST-as-GET carries an empty JSON object as payload
fetch_authorization_request_emptyobj(c, resp) ==
    /\ Awaiting(c, "fetch_authorization")
    /\ LET self == Unwrap(client) IN
       Return(c,
              jose_request(self.key_pair, Some(self.kid),
                           Unwrap(calls[c].nonce), calls[c].args.auth_url,
                           Some(EmptyJsonObject)),
              resp, jose_response_json(resp, "FetchAuthorizationResponse"))

\* mutant: the request is signed with the public key instead of the kid
fetch_authorization_request_nokid(c, resp) ==
    /\ Awaiting(c, "fetch_authorization")
    /\ LET self == Unwrap(client) IN
       Return(c,
              jose_request(self.key_pair, None,
                           Unwrap(calls[c].nonce), calls[c].args.auth_url,
                           None),
              resp, jose_response_json(resp, "FetchAuthorizationResponse"))

fetch_authorization_request(c, resp) ==
    /\ Awaiting(c, "fetch_authorization")
    /\ LET self == Unwrap(client) IN
       Return(c,
              jose_request(self.key_pair, Some(self.kid),
                           Unwrap(calls[c].nonce), calls[c].args.auth_url,
                           None),
              resp, jose_response_json(resp, "FetchAuthorizationResponse"))

(***************************************************************************)
(* trigger_challenge                                                       *)
(***************************************************************************)
trigger_challenge_get_nonce(c, domain, url, resp) ==
    /\ Invocable(c)
    /\ AwaitNonce(c, "trigger_challenge", [domain |-> domain, url |-> url],
                  resp)

\* mutant: the domain is sent to the CA in the payload
trigger_challenge_request_domain(c, resp) ==
    /\ Awaiting(c, "trigger_challenge")
    /\ LET self == Unwrap(client)
           r == jose_response(resp)
       IN Return(c,
                 jose_request(self.key_pair, Some(self.kid),
                              Unwrap(calls[c].nonce), calls[c].args.url,
                              Some([domain |-> calls[c].args.domain])),
                 resp, IF r.ok THEN Ok("unit") ELSE r)

trigger_challenge_request(c, resp) ==
    /\ Awaiting(c, "trigger_challenge")
    /\ LET self == Unwrap(client)
           r == jose_response(resp)
       IN Return(c,
                 jose_request(self.key_pair, Some(self.kid),
                              Unwrap(calls[c].nonce), calls[c].args.url,
                              Some(EmptyJsonObject)),
                 resp, IF r.ok THEN Ok("unit") ELSE r)

(***************************************************************************)
(* send_csr                                                                *)
(***************************************************************************)
send_csr_get_nonce(c, url, csr, resp) ==
    /\ Invocable(c)
    /\ AwaitNonce(c, "send_csr", [url |-> url, csr |-> csr], resp)

\* mutant: a failed request is sent a second time with the same nonce
send_csr_request_retry(c, resp) ==
    /\ Awaiting(c, "send_csr")
    /\ LET self == Unwrap(client)
           req == jose_request(self.key_pair, Some(self.kid),
                               Unwrap(calls[c].nonce), calls[c].args.url,
                               Some(CsrRequest(calls[c].args.csr)))
           ret == jose_response_json(resp, "NewOrderResponse")
       IN IF ret.ok
          THEN Return(c, req, resp, ret)
          ELSE /\ log' = log \o << Exchange(calls[c].inv, req, None),
                                   Exchange(calls[c].inv, req, None) >>
               /\ reply' = resp
               /\ invs' = [invs EXCEPT ![calls[c].inv].state = "err"]
               /\ calls' = [calls EXCEPT ![c] = NoCall]
               /\ UNCHANGED <<ctor, client, ca_nonces>>

send_csr_request(c, resp) ==
    /\ Awaiting(c, "send_csr")
    /\ LET self == Unwrap(client) IN
       Return(c,
              jose_request(self.key_pair, Some(self.kid),
                           Unwrap(calls[c].nonce), calls[c].args.url,
                           Some(CsrRequest(calls[c].args.csr))),
              resp, jose_response_json(resp, "NewOrderResponse"))

(***************************************************************************)
(* obtain_certificate: the signed POST-as-GET, then the whole body.        *)
(***************************************************************************)
obtain_certificate_get_nonce(c, url, resp) ==
    /\ Invocable(c)
    /\ AwaitNonce(c, "obtain_certificate", [url |-> url], resp)

\* mutant: the nonce lives in one slot shared by all callers, so the
\* request carries whatever the most recent fetch on the client returned
obtain_certificate_request_shared(c, resp) ==
    /\ Awaiting(c, "obtain_certificate")
    /\ LET self == Unwrap(client)
           r == jose_response(resp)
           latest == CHOOSE i \in DOMAIN log :
                        /\ log[i].got # None
                        /\ \A n \in DOMAIN log : log[n].got # None => n <= i
           req == jose_request(self.key_pair, Some(self.kid),
                               Unwrap(log[latest].got), calls[c].args.url,
                               None)
       IN IF ~r.ok THEN Return(c, req, resp, r)
          ELSE /\ log' = Append(log, Exchange(calls[c].inv, req, None))
               /\ reply' = resp
               /\ calls' = [calls EXCEPT ![c].pc = "into_vec",
                                         ![c].resp = Some(resp)]
               /\ UNCHANGED <<ctor, client, invs, ca_nonces>>

\* jose::request(..).await?: the signed POST-as-GET is sent and its status
\* checked; on success the future goes on to await the body
obtain_certificate_request(c, resp) ==
    /\ Awaiting(c, "obtain_certificate")
    /\ LET self == Unwrap(client)
           r == jose_response(resp)
           req == jose_request(self.key_pair, Some(self.kid),
                               Unwrap(calls[c].nonce), calls[c].args.url,
                               None)
       IN IF ~r.ok THEN Return(c, req, resp, r)
          ELSE /\ log' = Append(log, Exchange(calls[c].inv, req, None))
               /\ reply' = resp
               /\ calls' = [calls EXCEPT ![c].pc = "into_vec",
                                         ![c].resp = Some(resp)]
               /\ UNCHANGED <<ctor, client, invs, ca_nonces>>

\* the future is suspended in resp.into_body().into_vec().await
ReadingBody(c) ==
    calls[c].pc = "into_vec" /\ calls[c].op = "obtain_certificate"

\* mutant: a certificate URL is served to the caller only once
obtain_certificate_into_vec_once(c) ==
    /\ ReadingBody(c)
    /\ LET resp == Unwrap(calls[c].resp)
           seen == \E k \in 1..(calls[c].inv - 1) :
                      /\ invs[k].op = "obtain_certificate"
                      /\ invs[k].args = calls[c].args
                      /\ invs[k].state = "ok"
           ret == IF ~resp.body.read_ok \/ seen
                  THEN Err("failed to download certificate")
                  ELSE Ok(resp.body.raw)
       IN /\ reply' = resp
          /\ invs' = [invs EXCEPT ![calls[c].inv].state =
                                       IF ret.ok THEN "ok" ELSE "err",
                                   ![calls[c].inv].out =
                                       IF ret.ok THEN Some(ret.val) ELSE None]
          /\ calls' = [calls EXCEPT ![c] = NoCall]
          /\ UNCHANGED <<ctor, client, log, ca_nonces>>

\* resp.into_body().into_vec().await: the body arrives (or fails to) and
\* the operation returns it unparsed
obtain_certificate_into_vec(c) ==
    /\ ReadingBody(c)
    /\ LET resp == Unwrap(calls[c].resp)
           ret == IF ~resp.body.read_ok
                  THEN Err("failed to download certificate")
                  ELSE Ok(resp.body.raw)
       IN /\ reply' = resp
          /\ invs' = [invs EXCEPT ![calls[c].inv].state =
                                       IF ret.ok THEN "ok" ELSE "err",
                                   ![calls[c].inv].out =
                                       IF ret.ok THEN Some(ret.val) ELSE None]
          /\ calls' = [calls EXCEPT ![c] = NoCall]
          /\ UNCHANGED <<ctor, client, log, ca_nonces>>

(***************************************************************************)
(* The arguments callers pass to the facade.                               *)
(***************************************************************************)
CallDomainLists == { <<"example.com", "www.example.com">> }
CallUrls == {"https://ca/acme/authz/1"}
CallDomains == {"example.com"}
CallCsrs == { <<251, 240>> }

\* no facade future is in flight
Quiet == \A c \in Callers : calls[c].pc = "idle"

(***************************************************************************)
(* Spec: construction, then all five facade operations in any order and    *)
(* any number of times, each awaited before the next one is started (the   *)
(* way one issuance session drives the client).                            *)
(***************************************************************************)
Next ==
    \/ \E resp \in DirectoryResponses : try_new_get_directory(resp)
    \/ \E resp \in NonceResponses(ca_nonces) :
          create_acme_account_get_nonce(resp)
    \/ \E resp \in AccountResponses : create_acme_account_request(resp)
    \/ \E c \in Callers, domains \in CallDomainLists,
          resp \in NonceResponses(ca_nonces) :
          Quiet /\ new_order_get_nonce(c, domains, resp)
    \/ \E c \in Callers, resp \in SignedResponses : new_order_request(c, resp)
    \/ \E c \in Callers, auth_url \in CallUrls,
          resp \in NonceResponses(ca_nonces) :
          Quiet /\ fetch_authorization_get_nonce(c, auth_url, resp)
    \/ \E c \in Callers, resp \in SignedResponses :
          fetch_authorization_request(c, resp)
    \/ \E c \in Callers, domain \in CallDomains, url \in CallUrls,
          resp \in NonceResponses(ca_nonces) :
          Quiet /\ trigger_challenge_get_nonce(c, domain, url, resp)
    \/ \E c \in Callers, resp \in SignedResponses :
          trigger_challenge_request(c, resp)
    \/ \E c \in Callers, url \in CallUrls, csr \in CallCsrs,
          resp \in NonceResponses(ca_nonces) :
          Quiet /\ send_csr_get_nonce(c, url, csr, resp)
    \/ \E c \in Callers, resp \in SignedResponses : send_csr_request(c, resp)
    \/ \E c \in Callers, url \in CallUrls,
          resp \in NonceResponses(ca_nonces) :
          Quiet /\ obtain_certificate_get_nonce(c, url, resp)
    \/ \E c \in Callers, resp \in SignedResponses :
          obtain_certificate_request(c, resp)
    \/ \E c \in Callers : obtain_certificate_into_vec(c)

Spec == Init /\ [][Next]_vars

(***************************************************************************)
(* SpecOverlap: callers drive facade futures on the shared client          *)
(* concurrently; a future may start while others are suspended at any of   *)
(* their awaits (nonce fetch, signed request, body read).  All five        *)
(* operations overlap.  The callers are interchangeable, so a new future   *)
(* is given the lowest free caller; construction is explored for one       *)
(* account location and a header-supplied nonce, next to its failures; the *)
(* CA answers a signed request with a rejection, a certificate, an order   *)
(* or an authorization.                                                    *)
(***************************************************************************)
FirstIdle(c) == \A d \in Callers : d < c => calls[d].pc # "idle"

OverlapSetupNonces(n) ==
    { TransportError, Response(500, NoHeaders, NoBody), FreshNonceResponse(n) }

OverlapSigned ==
    { Response(400, NoHeaders, JsonBody([type |-> "badNonce"], "problem")),
      Response(200, NoHeaders, TextBody("-----BEGIN CERTIFICATE-----")),
      Response(200, NoHeaders, JsonBody(OrderJson, "order")),
      Response(200, NoHeaders, JsonBody(AuthorizationJson, "authorization")) }

OverlapSetupAccounts ==
    { resp \in AccountResponses :
         "location" \in DOMAIN resp.headers =>
            resp.headers["location"] \in {<<97, 99, 99, 116, 47, 49>>, <<195, 169>>} }

NextOverlap ==
    \/ \E resp \in DirectoryResponses : try_new_get_directory(resp)
    \/ \E resp \in OverlapSetupNonces(ca_nonces) :
          create_acme_account_get_nonce(resp)
    \/ \E resp \in OverlapSetupAccounts : create_acme_account_request(resp)
    \/ \E c \in Callers, domains \in CallDomainLists,
          resp \in NonceResponses(ca_nonces) :
          FirstIdle(c) /\ new_order_get_nonce(c, domains, resp)
    \/ \E c \in Callers, resp \in OverlapSigned : new_order_request(c, resp)
    \/ \E c \in Callers, auth_url \in CallUrls,
          resp \in NonceResponses(ca_nonces) :
          FirstIdle(c) /\ fetch_authorization_get_nonce(c, auth_url, resp)
    \/ \E c \in Callers, resp \in OverlapSigned :
          fetch_authorization_request(c, resp)
    \/ \E c \in Callers, domain \in CallDomains, url \in CallUrls,
          resp \in NonceResponses(ca_nonces) :
          FirstIdle(c) /\ trigger_challenge_get_nonce(c, domain, url, resp)
    \/ \E c \in Callers, resp \in OverlapSigned :
          trigger_challenge_request(c, resp)
    \/ \E c \in Callers, url \in CallUrls, csr \in CallCsrs,
          resp \in NonceResponses(ca_nonces) :
          FirstIdle(c) /\ send_csr_get_nonce(c, url, csr, resp)
    \/ \E c \in Callers, resp \in OverlapSigned : send_csr_request(c, resp)
    \/ \E c \in Callers, url \in CallUrls,
          resp \in NonceResponses(ca_nonces) :
          FirstIdle(c) /\ obtain_certificate_get_nonce(c, url, resp)
    \/ \E c \in Callers, resp \in OverlapSigned :
          obtain_certificate_request(c, resp)
    \/ \E c \in Callers : obtain_certificate_into_vec(c)

SpecOverlap == Init /\ [][NextOverlap]_vars

(***************************************************************************)
(* SpecOrders: new_order alone, over the whole set of domain lists         *)
(* (order, duplicates, lengths one to three).                              *)
(***************************************************************************)
NextOrders ==
    \/ \E resp \in DirectoryResponses : try_new_get_directory(resp)
    \/ \E resp \in NonceResponses(ca_nonces) :
          create_acme_account_get_nonce(resp)
    \/ \E resp \in AccountResponses : create_acme_account_request(resp)
    \/ \E c \in Callers, domains \in DomainLists,
          resp \in NonceResponses(ca_nonces) :
          Quiet /\ new_order_get_nonce(c, domains, resp)
    \/ \E c \in Callers, resp \in SignedResponses : new_order_request(c, resp)

SpecOrders == Init /\ [][NextOrders]_vars

(***************************************************************************)
(* SpecFetch: the two POST-as-GET operations over both URLs, next to       *)
(* new_order.                                                              *)
(***************************************************************************)
NextFetch ==
    \/ \E resp \in DirectoryResponses : try_new_get_directory(resp)
    \/ \E resp \in NonceResponses(ca_nonces) :
          create_acme_account_get_nonce(resp)
    \/ \E resp \in AccountResponses : create_acme_account_request(resp)
    \/ \E c \in Callers, domains \in CallDomainLists,
          resp \in NonceResponses(ca_nonces) :
          Quiet /\ new_order_get_nonce(c, domains, resp)
    \/ \E c \in Callers, resp \in SignedResponses : new_order_request(c, resp)
    \/ \E c \in Callers, auth_url \in Urls,
          resp \in NonceResponses(ca_nonces) :
          Quiet /\ fetch_authorization_get_nonce(c, auth_url, resp)
    \/ \E c \in Callers, resp \in SignedResponses :
          fetch_authorization_request(c, resp)
    \/ \E c \in Callers, url \in Urls,
          resp \in NonceResponses(ca_nonces) :
          Quiet /\ obtain_certificate_get_nonce(c, url, resp)
    \/ \E c \in Callers, resp \in SignedResponses :
          obtain_certificate_request(c, resp)
    \/ \E c \in Callers : obtain_certificate_into_vec(c)

SpecFetch == Init /\ [][NextFetch]_vars

(***************************************************************************)
(* SpecChallenge: trigger_challenge alone, over all domains and URLs.      *)
(***************************************************************************)
ChallengeDomains == {"example.com", "www.example.com"}

NextChallenge ==
    \/ \E resp \in DirectoryResponses : try_new_get_directory(resp)
    \/ \E resp \in NonceResponses(ca_nonces) :
          create_acme_account_get_nonce(resp)
    \/ \E resp \in AccountResponses : create_acme_account_request(resp)
    \/ \E c \in Callers, domain \in ChallengeDomains, url \in Urls,
          resp \in NonceResponses(ca_nonces) :
          Quiet /\ trigger_challenge_get_nonce(c, domain, url, resp)
    \/ \E c \in Callers, resp \in SignedResponses :
          trigger_challenge_request(c, resp)

SpecChallenge == Init /\ [][NextChallenge]_vars

(***************************************************************************)
(* SpecCsr: send_csr alone, over every CSR input (empty, one to four       *)
(* bytes, bytes whose sextets are 62 and 63).                              *)
(***************************************************************************)
NextCsr ==
    \/ \E resp \in DirectoryResponses : try_new_get_directory(resp)
    \/ \E resp \in NonceResponses(ca_nonces) :
          create_acme_account_get_nonce(resp)
    \/ \E resp \in AccountResponses : create_acme_account_request(resp)
    \/ \E c \in Callers, url \in CallUrls, csr \in CsrInputs,
          resp \in NonceResponses(ca_nonces) :
          Quiet /\ send_csr_get_nonce(c, url, csr, resp)
    \/ \E c \in Callers, resp \in SignedResponses : send_csr_request(c, resp)

SpecCsr == Init /\ [][NextCsr]_vars

(***************************************************************************)
(* Reading the request log.                                                *)
(***************************************************************************)
IsSigned(e) == e.req.method = "POST" /\ e.req.protected # None

IsNonceFetch(e) ==
    /\ e.req.method = "GET"
    /\ ctor.directory # None
    /\ e.req.uri = Unwrap(ctor.directory).new_nonce

Fetches(l, k) == { i \in DOMAIN l : l[i].inv = k /\ IsNonceFetch(l[i]) }
SignedOf(l, k) == { j \in DOMAIN l : l[j].inv = k /\ IsSigned(l[j]) }
AllSigned(l) == { j \in DOMAIN l : IsSigned(l[j]) }
Carried(e) == Unwrap(e.req.protected).nonce
Last(l) == l[Len(l)]

HttpFailure(resp) == ~resp.sent \/ ~(resp.status \in 200..299)

\* the signed request at j carries what the nonce fetch of its own
\* invocation returned, and that fetch was issued before it
CarriesOwnNonce(l, j) ==
    \E i \in Fetches(l, l[j].inv) :
        i < j /\ l[i].got = Some(Carried(l[j]))

ClientHoldsNoNonce ==
    /\ client # None => DOMAIN Unwrap(client) = {"directory", "key_pair", "kid"}
    /\ \A c \in Callers : calls[c].pc = "idle" => calls[c].nonce = None
    /\ ctor.pc = "returned" /\ client # None =>
          Unwrap(client) = [directory |-> Unwrap(ctor.directory),
                            key_pair |-> ctor.key_pair,
                            kid |-> Unwrap(client).kid]

(***************************************************************************)
(* C1 as stated: every nonce value returned by a nonce fetch is carried in *)
(* the protected header of at most one signed request, and no nonce is     *)
(* kept in client state between calls.                                     *)
(***************************************************************************)
C1_NonceValueCarriedOnce ==
    /\ \A i \in DOMAIN log :
          log[i].got # None =>
             Cardinality({ j \in AllSigned(log) :
                             Carried(log[j]) = Unwrap(log[i].got) }) <= 1
    /\ ClientHoldsNoNonce

(***************************************************************************)
(* C1 amended: every signed request carries the value returned by the      *)
(* nonce fetch of its own invocation, an invocation sends at most one      *)
(* signed request, every non-empty nonce value returned by a fetch is      *)
(* carried by at most one signed request, and no nonce is kept in client   *)
(* state between calls.  (The empty string get_nonce substitutes for a     *)
(* missing or unreadable replay-nonce header can be carried repeatedly.)   *)
(***************************************************************************)
C1_NonceConsumedOnce ==
    /\ \A j \in AllSigned(log) :
          /\ CarriesOwnNonce(log, j)
          /\ SignedOf(log, log[j].inv) = {j}
    /\ \A i \in DOMAIN log :
          (log[i].got # None /\ log[i].got # Some(<<>>)) =>
             Cardinality({ j \in AllSigned(log) :
                             Carried(log[j]) = Unwrap(log[i].got) }) <= 1
    /\ ClientHoldsNoNonce

C1_Witness ==
    \E j, j2 \in AllSigned(log) :
        /\ j # j2
        /\ Carried(log[j]) # <<>>
        /\ Carried(log[j2]) # <<>>
        /\ \A c \in Callers : calls[c].pc = "idle"

(***************************************************************************)
(* C2: every facade invocation that completed successfully issued exactly  *)
(* one nonce fetch and then exactly one signed request, and nothing else,  *)
(* and the signed request carries the nonce its own fetch returned.        *)
(***************************************************************************)
C2_OneFetchThenOneSigned ==
    \A k \in DOMAIN invs :
        invs[k].state = "ok" =>
           \E i, j \in DOMAIN log :
              /\ i < j
              /\ { n \in DOMAIN log : log[n].inv = k } = {i, j}
              /\ Fetches(log, k) = {i}
              /\ SignedOf(log, k) = {j}
              /\ log[i].got = Some(Carried(log[j]))
              /\ invs[k].op \in {"new_order", "fetch_authorization",
                                 "trigger_challenge", "send_csr",
                                 "obtain_certificate"}

C2_Witness ==
    /\ Len(invs) = 2
    /\ \A k \in DOMAIN invs : invs[k].state = "ok"
    /\ invs[1].op # invs[2].op

(***************************************************************************)
(* C3: when facade operations overlap on the client, each signed request   *)
(* carries the value returned by the fetch of its own invocation, and two  *)
(* signed requests of different invocations never draw on the same fetch   *)
(* (nor, for header-supplied nonces, on the same value).                   *)
(***************************************************************************)
OwnFetch(l, j) ==
    CHOOSE i \in Fetches(l, l[j].inv) : i < j /\ l[i].got = Some(Carried(l[j]))

C3_OverlapNoSharedNonce ==
    \A j \in AllSigned(log) :
        log[j].inv > 0 =>
           /\ Fetches(log, log[j].inv) # {}
           /\ \A i \in Fetches(log, log[j].inv) :
                 i < j /\ log[i].got = Some(Carried(log[j]))
           /\ \A j2 \in AllSigned(log) :
                 (j2 # j /\ log[j2].inv > 0) =>
                    /\ log[j2].inv # log[j].inv
                    /\ CarriesOwnNonce(log, j2) =>
                          OwnFetch(log, j2) # OwnFetch(log, j)
                    /\ Carried(log[j]) # <<>> =>
                          Carried(log[j2]) # Carried(log[j])

\* two invocations overlapped: the second fetched its nonce between the
\* first one's fetch and the first one's signed request
C3_Witness ==
    \E j, j2 \in AllSigned(log) :
        /\ log[j].inv > 0 /\ log[j2].inv > 0 /\ log[j].inv # log[j2].inv
        /\ \E i \in Fetches(log, log[j].inv), i2 \in Fetches(log, log[j2].inv) :
              i < i2 /\ i2 < j
        /\ Carried(log[j]) # <<>> /\ Carried(log[j2]) # <<>>

(***************************************************************************)
(* C4 as stated: an operation's signed request is the very next request    *)
(* the client issues after that operation's nonce fetch; no request of     *)
(* another operation comes in between, even when callers overlap.          *)
(***************************************************************************)
C4_FetchAndUseAtomic ==
    \A j \in AllSigned(log) :
        \A i \in Fetches(log, log[j].inv) : j = i + 1

(***************************************************************************)
(* C5: the kid is set once, when construction succeeds, to the Location    *)
(* value of the account response; it never changes afterwards; every       *)
(* signed request of a facade operation carries it, and the account        *)
(* registration request carries no kid.                                    *)
(***************************************************************************)
KidCarried(l, cl) ==
    \A j \in AllSigned(l) :
        LET protected == Unwrap(l[j].req.protected) IN
        IF l[j].inv = 0
        THEN protected.kid = None
        ELSE cl # None /\ protected.kid = Some(Unwrap(cl).kid)

C5_KidStep ==
    /\ client # None => client' = client
    /\ (client = None /\ client' # None) =>
          /\ "location" \in DOMAIN reply'.headers
          /\ Unwrap(client').kid = reply'.headers["location"]
          /\ Len(log') = 3
          /\ IsSigned(Last(log'))
          /\ Last(log').req.uri = Unwrap(client').directory.new_account
    /\ KidCarried(log', client')

C5_KidSetOnceAndCarried == [][C5_KidStep]_vars

C5_Witness ==
    /\ client # None
    /\ Unwrap(client).kid \in AccountLocations
    /\ \E j, j2 \in AllSigned(log) :
          /\ log[j].inv = 1 /\ log[j2].inv = 2
          /\ invs[1].op # invs[2].op

(***************************************************************************)
(* C6: when the directory fetch fails (transport error, non-success        *)
(* status, malformed body), or the nonce fetch fails, or the signed        *)
(* account request fails, or the account response has no Location header,  *)
(* try_new returns an error, no client value exists and no facade          *)
(* operation is ever invoked.                                              *)
(***************************************************************************)
DirectoryBodyMalformed(body) ==
    \/ ~body.read_ok
    \/ body.json = None
    \/ ~({"newNonce", "newAccount", "newOrder"} \subseteq
            DOMAIN Unwrap(body.json))

ConstructionFailureCase ==
    /\ Len(log) >= 1
    /\ Last(log).inv = 0
    /\ \/ Len(log) = 1 /\ (HttpFailure(reply) \/ DirectoryBodyMalformed(reply.body))
       \/ Len(log) = 2 /\ HttpFailure(reply)
       \/ Len(log) = 3 /\ (HttpFailure(reply)
                            \/ "location" \notin DOMAIN reply.headers)

C6_ConstructionFailureFatal ==
    /\ ConstructionFailureCase =>
          /\ ctor.pc = "returned"
          /\ ctor.ret # None
          /\ ~Unwrap(ctor.ret).ok
    /\ (ctor.ret # None /\ ~Unwrap(ctor.ret).ok) => client = None
    /\ client = None =>
          /\ invs = <<>>
          /\ \A c \in Callers : calls[c] = NoCall
          /\ \A i \in DOMAIN log : log[i].inv = 0

C6_Witness ==
    /\ Len(log) = 3
    /\ reply.sent
    /\ reply.status = 201
    /\ "location" \notin DOMAIN reply.headers
    /\ ctor.pc = "returned"
    /\ client = None

(***************************************************************************)
(* C7: construction issues directory GET, nonce GET, signed POST to        *)
(* directory.newAccount in this order; a step is issued only after the     *)
(* previous one succeeded; a successful construction made exactly these    *)
(* three round trips.                                                      *)
(***************************************************************************)
CtorLog(l) == SelectSeq(l, LAMBDA e : e.inv = 0)

CtorShape(l, ct) ==
    /\ Len(l) <= 3
    /\ Len(l) >= 1 => l[1].req = GetRequest(ct.directory_url)
    /\ Len(l) >= 2 =>
          /\ ct.directory # None
          /\ l[2].req = GetRequest(Unwrap(ct.directory).new_nonce)
    /\ Len(l) >= 3 =>
          /\ IsSigned(l[3])
          /\ l[3].req.uri = Unwrap(ct.directory).new_account
          /\ l[2].got = Some(Carried(l[3]))

C7_ConstructionStep ==
    /\ CtorShape(CtorLog(log'), ctor')
    /\ (client' # None) => Len(CtorLog(log')) = 3
    /\ (Len(log) = 1 /\ (HttpFailure(reply) \/ DirectoryBodyMalformed(reply.body)))
          => log' = log
    /\ (Len(log) = 2 /\ HttpFailure(reply)) => log' = log
    /\ Len(log) >= 3 => CtorLog(log') = CtorLog(log)

C7_ConstructionOrder == [][C7_ConstructionStep]_vars

C7_Witness ==
    /\ client # None
    /\ Len(log) = 3
    /\ ctor.pc = "returned"

(***************************************************************************)
(* C8: when the nonce fetch of a facade operation fails (transport error   *)
(* or non-success status), the operation returns an error, no signed       *)
(* request is ever sent for that invocation, and the client (directory,    *)
(* key reference, kid) is unchanged.                                       *)
(***************************************************************************)
C8_NonceFailureStep ==
    /\ (/\ Len(log') = Len(log) + 1
        /\ Last(log').inv > 0
        /\ Last(log').req.method = "GET"
        /\ HttpFailure(reply'))
       => LET k == Last(log').inv IN
          /\ invs'[k].state = "err"
          /\ \A c \in Callers : calls'[c].inv # k
          /\ SignedOf(log', k) = {}
          /\ client' = client
    /\ \A k \in DOMAIN invs :
          (invs[k].state = "err" /\ SignedOf(log, k) = {})
             => (SignedOf(log', k) = {} /\ invs'[k].state = "err")

C8_NonceFailureNoSignedRequest == [][C8_NonceFailureStep]_vars

C8_Witness ==
    /\ Len(invs) = 2
    /\ invs[1].state = "err"
    /\ SignedOf(log, 1) = {}
    /\ SignedOf(log, 2) # {}
    /\ \E i \in Fetches(log, 1) : log[i].got = None

(***************************************************************************)
(* C9: nothing is retried internally: construction and every facade        *)
(* invocation issue at most one nonce fetch and at most one signed         *)
(* request, whatever the outcome; an invocation repeated by the caller     *)
(* after a failed one fetches a nonce of its own and its signed request    *)
(* carries that one, not the nonce the failed attempt drew.                *)
(***************************************************************************)
Requests(l, k) == { n \in DOMAIN l : l[n].inv = k }

IsRetryOf(k2, k) ==
    /\ k < k2
    /\ invs[k].state = "err"
    /\ invs[k2].op = invs[k].op
    /\ invs[k2].args = invs[k].args
    /\ \A n \in Requests(log, k), n2 \in Requests(log, k2) : n < n2

C9_NoInternalRetry ==
    /\ \A k \in 0..Len(invs) :
          /\ Cardinality(Fetches(log, k)) <= 1
          /\ Cardinality(SignedOf(log, k)) <= 1
          /\ Cardinality(Requests(log, k)) <= IF k = 0 THEN 3 ELSE 2
    /\ \A k, k2 \in DOMAIN invs :
          IsRetryOf(k2, k) =>
             /\ Cardinality(Fetches(log, k2)) = 1
             /\ \A j \in SignedOf(log, k2) :
                   /\ CarriesOwnNonce(log, j)
                   /\ \A i \in Fetches(log, k) :
                         (log[i].got # None /\ log[i].got # Some(<<>>))
                            => log[i].got # Some(Carried(log[j]))

\* a signed request failed after drawing a nonce, and the caller's
\* repetition of the same call has sent its own signed request
C9_Witness ==
    /\ Len(invs) = 2
    /\ IsRetryOf(2, 1)
    /\ SignedOf(log, 1) # {}
    /\ SignedOf(log, 2) # {}
    /\ \A j \in SignedOf(log, 1) : Carried(log[j]) # <<>>

(***************************************************************************)
(* C10: new_order(D) sends to directory.newOrder an identifier list of     *)
(* length Len(D) whose i-th element has type "dns" and value D[i], in the  *)
(* same order, duplicates included.                                        *)
(***************************************************************************)
C10_IdentifiersPreserveDomains ==
    \A j \in AllSigned(log) :
        (log[j].inv > 0 /\ invs[log[j].inv].op = "new_order") =>
           LET D == invs[log[j].inv].args.domains
               payload == log[j].req.payload
           IN /\ log[j].req.uri = Unwrap(client).directory.new_order
              /\ payload # None
              /\ DOMAIN Unwrap(payload) = {"identifiers"}
              /\ LET ids == Unwrap(payload).identifiers IN
                 /\ Len(ids) = Len(D)
                 /\ \A i \in 1..Len(D) :
                       ids[i].ty = "dns" /\ ids[i].value = D[i]

C10_Witness ==
    \E j, j2 \in AllSigned(log) :
        /\ log[j].inv = 1 /\ log[j2].inv = 2
        /\ invs[1].args.domains = <<"example.com", "example.com">>
        /\ invs[2].args.domains =
              <<"www.example.com", "example.com", "www.example.com">>

(***************************************************************************)
(* C11 as stated: on a success status from the nonce endpoint the fetch    *)
(* returns the exact replay-nonce header value whenever the header is      *)
(* present, and the empty string when it is absent.                        *)
(***************************************************************************)
NonceFetchAnswered ==
    /\ Len(log) >= 1
    /\ IsNonceFetch(Last(log))
    /\ reply.sent
    /\ reply.status \in 200..299

C11_NonceIsHeaderValue ==
    NonceFetchAnswered =>
       IF "replay-nonce" \in DOMAIN reply.headers
       THEN Last(log).got = Some(reply.headers["replay-nonce"])
       ELSE Last(log).got = Some(<<>>)

(***************************************************************************)
(* C11, what get_nonce does guarantee: on a success status it returns the  *)
(* exact replay-nonce header value when the header is present and made of  *)
(* visible ASCII characters only, and the empty string when the header is  *)
(* absent or its value is not visible ASCII; the future that fetched holds *)
(* exactly that value.                                                     *)
(***************************************************************************)
ReadableText(value) ==
    \A i \in 1..Len(value) : value[i] \in (32..126) \cup {9}

C11_NonceIsReadableHeaderValue ==
    NonceFetchAnswered =>
       /\ IF /\ "replay-nonce" \in DOMAIN reply.headers
             /\ ReadableText(reply.headers["replay-nonce"])
          THEN Last(log).got = Some(reply.headers["replay-nonce"])
          ELSE Last(log).got = Some(<<>>)
       /\ IF Last(log).inv = 0
          THEN ctor.nonce = Last(log).got
          ELSE \E c \in Callers :
                  calls[c].inv = Last(log).inv /\ calls[c].nonce = Last(log).got

C11_Witness ==
    /\ NonceFetchAnswered
    /\ Last(log).inv = 2
    /\ "replay-nonce" \in DOMAIN reply.headers
    /\ Last(log).got = Some(reply.headers["replay-nonce"])
    /\ Last(log).got # Some(<<>>)
    /\ \E i \in Fetches(log, 1) :
          log[i].got = Some(<<>>)

(***************************************************************************)
(* C12: account registration fails whenever the signed newAccount response *)
(* has no Location header, even with a success status: no kid is produced  *)
(* and construction fails.                                                 *)
(***************************************************************************)
AccountAnsweredWithoutLocation ==
    /\ Len(log) = 3
    /\ Last(log).inv = 0
    /\ IsSigned(Last(log))
    /\ reply.sent
    /\ reply.status \in 200..299
    /\ "location" \notin DOMAIN reply.headers

C12_NoLocationFailsRegistration ==
    AccountAnsweredWithoutLocation =>
       /\ ctor.pc = "returned"
       /\ ctor.ret = Some(Err("unable to get account id"))
       /\ client = None

C12_Witness ==
    /\ AccountAnsweredWithoutLocation
    /\ reply.status = 201
    /\ ctor.ret = Some(Err("unable to get account id"))

(***************************************************************************)
(* C13: the directory fetch returns an error, and never a Directory, on a  *)
(* non-2xx status, on a 2xx status with a body that is not JSON, and on    *)
(* JSON that lacks a required endpoint field.                              *)
(***************************************************************************)
DirectoryAnsweredBadly ==
    /\ Len(log) = 1
    /\ reply.sent
    /\ \/ ~(reply.status \in 200..299)
       \/ reply.body.json = None
       \/ \E f \in {"newNonce", "newAccount", "newOrder"} :
             f \notin DOMAIN Unwrap(reply.body.json)

C13_DirectoryFetchErrors ==
    DirectoryAnsweredBadly =>
       /\ ctor.pc = "returned"
       /\ ctor.ret # None
       /\ ~Unwrap(ctor.ret).ok
       /\ ctor.directory = None
       /\ client = None

C13_Witness ==
    /\ DirectoryAnsweredBadly
    /\ reply.status = 200
    /\ reply.body.json # None
    /\ "newOrder" \notin DOMAIN Unwrap(reply.body.json)
    /\ ctor.ret = Some(Err("failed to load directory: body"))

(***************************************************************************)
(* C14: obtain_certificate is idempotent.  What a call returns is the body *)
(* the CA serves to that call and nothing else, so a call that is served   *)
(* the bytes an earlier call with the same URL returned returns the same   *)
(* bytes; and each call draws its own nonce: two calls make two nonce      *)
(* fetches and two signed requests.                                        *)
(***************************************************************************)
ObtainFinishes(k) ==
    /\ k \in DOMAIN invs
    /\ invs[k].op = "obtain_certificate"
    /\ invs[k].state = "pending"
    /\ invs'[k].state # "pending"

Served(resp) ==
    IF resp.sent /\ resp.status \in 200..299 /\ resp.body.read_ok
    THEN Some(resp.body.raw) ELSE None

EarlierObtained(k) ==
    { j \in 1..(k - 1) : /\ invs[j].op = "obtain_certificate"
                         /\ invs[j].args = invs[k].args
                         /\ invs[j].state = "ok" }

C14_ObtainStep ==
    \A k \in 1..MaxInv :
       ObtainFinishes(k) =>
          /\ invs'[k].out = Served(reply')
          /\ \A j \in EarlierObtained(k) :
                /\ invs[j].out = Served(reply') => invs'[k].out = invs'[j].out
                /\ Cardinality(Fetches(log', j) \cup Fetches(log', k)) = 2
                /\ Cardinality(SignedOf(log', j) \cup SignedOf(log', k)) = 2
                /\ \A m \in Fetches(log', k), n \in SignedOf(log', k) :
                      /\ m > CHOOSE x \in SignedOf(log', j) : TRUE
                      /\ n = m + 1
                      /\ Carried(log'[n]) = Unwrap(log'[m].got)

C14_ObtainCertificateIdempotent == [][C14_ObtainStep]_vars

C14_Witness ==
    /\ Len(invs) = 2
    /\ \A k \in {1, 2} : /\ invs[k].op = "obtain_certificate"
                         /\ invs[k].args = [url |-> "https://ca/acme/cert/1"]
                         /\ invs[k].out = Some("-----BEGIN CERTIFICATE-----")
    /\ \E m \in Fetches(log, 1), n \in Fetches(log, 2) :
          log[m].got # log[n].got

(***************************************************************************)
(* C15: trigger_challenge sends a signed POST with the empty JSON object   *)
(* as payload to the given challenge URL; the domain argument never        *)
(* reaches the wire: two invocations that differ only in the domain issue  *)
(* identical requests when they carry the same nonce.                      *)
(***************************************************************************)
Challenges == { k \in DOMAIN invs : invs[k].op = "trigger_challenge" }

C15_ChallengeHidesDomain ==
    /\ \A k \in Challenges : \A n \in SignedOf(log, k) :
          /\ log[n].req.method = "POST"
          /\ log[n].req.uri = invs[k].args.url
          /\ Unwrap(log[n].req.protected).url = invs[k].args.url
          /\ log[n].req.payload = Some(EmptyJsonObject)
    /\ \A j \in Challenges, k \in Challenges :
          invs[j].args.url = invs[k].args.url =>
             /\ \A m \in Fetches(log, j), n \in Fetches(log, k) :
                   log[m].req = log[n].req
             /\ \A m \in SignedOf(log, j), n \in SignedOf(log, k) :
                   Carried(log[m]) = Carried(log[n]) => log[m].req = log[n].req

C15_Witness ==
    /\ Challenges = {1, 2}
    /\ invs[1].args.url = invs[2].args.url
    /\ invs[1].args.domain # invs[2].args.domain
    /\ \E m \in SignedOf(log, 1), n \in SignedOf(log, 2) :
          /\ Carried(log[m]) = Carried(log[n])
          /\ log[m].req = log[n].req

(***************************************************************************)
(* C16: for every CSR byte sequence send_csr sends, to the finalize URL, a *)
(* signed payload whose only field csr holds the bytes in URL-safe base64  *)
(* without padding: only characters of the URL-safe alphabet, no '=', the  *)
(* unpadded length, and decoding gives back the bytes.                     *)
(***************************************************************************)
UrlSafeAlphabet ==
    { "A","B","C","D","E","F","G","H","I","J","K","L","M","N","O","P","Q",
      "R","S","T","U","V","W","X","Y","Z","a","b","c","d","e","f","g","h",
      "i","j","k","l","m","n","o","p","q","r","s","t","u","v","w","x","y",
      "z","0","1","2","3","4","5","6","7","8","9","-","_" }

SextetValue(ch) == (CHOOSE i \in 1..64 : URL_SAFE[i] = ch) - 1

RECURSIVE Base64UrlDecode(_)
Base64UrlDecode(text) ==
    IF Len(text) = 0 THEN <<>>
    ELSE IF Len(text) = 1 THEN << -1 >>
    ELSE LET a == SextetValue(text[1])
             b == SextetValue(text[2])
         IN IF Len(text) = 2 THEN << a * 4 + b \div 16 >>
            ELSE LET c == SextetValue(text[3]) IN
                 IF Len(text) = 3
                 THEN << a * 4 + b \div 16, (b % 16) * 16 + c \div 4 >>
                 ELSE << a * 4 + b \div 16, (b % 16) * 16 + c \div 4,
                         (c % 4) * 64 + SextetValue(text[4]) >>
                      \o Base64UrlDecode(SubSeq(text, 5, Len(text)))

Finalizations == { k \in DOMAIN invs : invs[k].op = "send_csr" }

C16_CsrUrlSafeNoPad ==
    \A k \in Finalizations : \A n \in SignedOf(log, k) :
       LET req == log[n].req
           bytes == invs[k].args.csr
       IN /\ req.uri = invs[k].args.url
          /\ req.payload # None
          /\ DOMAIN Unwrap(req.payload) = {"csr"}
          /\ LET text == Unwrap(req.payload).csr IN
             /\ \A i \in 1..Len(text) : text[i] \in UrlSafeAlphabet
             /\ \A i \in 1..Len(text) : text[i] \notin {"=", "+", "/"}
             /\ Len(text) = (4 * Len(bytes) + 2) \div 3
             /\ Base64UrlDecode(text) = bytes

C16_Witness ==
    /\ Finalizations = {1, 2}
    /\ invs[1].args.csr = <<251, 240>>
    /\ invs[2].args.csr = <<0, 16, 131, 16>>
    /\ \E n \in SignedOf(log, 1) :
          Unwrap(log[n].req.payload).csr = <<"-", "_", "A">>
    /\ \E n \in SignedOf(log, 2) :
          Unwrap(log[n].req.payload).csr = <<"A", "B", "C", "D", "E", "A">>

(***************************************************************************)
(* C17: the directory is fetched exactly once, during construction: the    *)
(* only request to the directory URL is the first request of try_new, no   *)
(* facade operation targets it, and the endpoint URLs the client stores    *)
(* are those of that one response for as long as the client lives.         *)
(***************************************************************************)
DirectoryFetches(l) == { i \in DOMAIN l : l[i].req.uri = ctor.directory_url }

C17_DirectoryStep ==
    client # None =>
       /\ client' # None
       /\ Unwrap(client').directory = Unwrap(client).directory
       /\ Unwrap(client).directory = Unwrap(ctor.directory)
       /\ ctor' = ctor
       /\ DirectoryFetches(log') = {1}
       /\ log'[1] = Exchange(0, GetRequest(ctor.directory_url), None)
       /\ \A i \in DOMAIN log' : log'[i].inv > 0 =>
             log'[i].req.uri # ctor.directory_url

C17_DirectoryFetchedOnce == [][C17_DirectoryStep]_vars

C17_Witness ==
    /\ client # None
    /\ Len(invs) = 2
    /\ invs[1].op = "trigger_challenge" /\ invs[1].state = "ok"
    /\ invs[2].op = "send_csr" /\ invs[2].state = "ok"
    /\ DirectoryFetches(log) = {1}
    /\ Len(log) = 7
    /\ Unwrap(client).directory = Unwrap(ctor.directory)

(***************************************************************************)
(* C18 as stated: a nonce endpoint answer with success status and no       *)
(* replay-nonce header does not fail the operation at the nonce step: the  *)
(* operation still issues its signed request, carrying the empty string as *)
(* nonce, and an error is reported to the caller only if the CA then       *)
(* rejects that signed request.                                            *)
(***************************************************************************)
HeaderMissing(resp) ==
    /\ resp.sent
    /\ resp.status \in 200..299
    /\ "replay-nonce" \notin DOMAIN resp.headers

\* the CA answered the signed request and refused it
Rejected(resp) == resp.sent /\ ~(resp.status \in 200..299)

C18_RejectedStep ==
    /\ (Len(invs') = Len(invs) + 1 /\ HeaderMissing(reply')) =>
          /\ invs'[Len(invs')].state = "pending"
          /\ \E c \in Callers :
                /\ calls'[c].inv = Len(invs')
                /\ calls'[c].pc = "request"
                /\ calls'[c].nonce = Some(<<>>)
    /\ \A c \in Callers :
          (/\ calls[c].pc = "request"
           /\ Last(log).inv = calls[c].inv
           /\ HeaderMissing(reply)
           /\ calls'[c] # calls[c]) =>
              /\ IsSigned(Last(log'))
              /\ Last(log').inv = calls[c].inv
              /\ Carried(Last(log')) = <<>>
              /\ invs'[calls[c].inv].state = "err" => Rejected(reply')
    /\ \A c \in Callers :
          (/\ calls[c].pc = "into_vec"
           /\ \A n \in SignedOf(log, calls[c].inv) : Carried(log[n]) = <<>>
           /\ calls'[c] # calls[c]) =>
              (invs'[calls[c].inv].state = "err" => Rejected(reply'))

C18_ErrorOnlyIfRejected == [][C18_RejectedStep]_vars

(***************************************************************************)
(* C18 amended: a nonce endpoint answer with success status and no         *)
(* replay-nonce header does not fail the operation at the nonce step: the  *)
(* operation still issues its signed request, carrying the empty string as *)
(* nonce, and an error is reported to the caller exactly when the signed   *)
(* exchange fails: the request cannot be sent, the CA answers with a       *)
(* non-success status, or the body of a success answer cannot be read or   *)
(* decoded into what the operation returns.                                *)
(***************************************************************************)
NeedsJson(op) == op \in {"new_order", "fetch_authorization", "send_csr"}

NotAccepted(resp, op) ==
    \/ HttpFailure(resp)
    \/ op # "trigger_challenge" /\ ~resp.body.read_ok
    \/ NeedsJson(op) /\ resp.body.json = None
    \/ NeedsJson(op) /\ resp.body.json # None
          /\ Unwrap(resp.body.json).shape #
                (IF op = "fetch_authorization"
                 THEN "FetchAuthorizationResponse" ELSE "NewOrderResponse")

C18_MissingHeaderStep ==
    /\ (Len(invs') = Len(invs) + 1 /\ HeaderMissing(reply')) =>
          /\ invs'[Len(invs')].state = "pending"
          /\ \E c \in Callers :
                /\ calls'[c].inv = Len(invs')
                /\ calls'[c].pc = "request"
                /\ calls'[c].nonce = Some(<<>>)
    /\ \A c \in Callers :
          (/\ calls[c].pc = "request"
           /\ Last(log).inv = calls[c].inv
           /\ HeaderMissing(reply)
           /\ calls'[c] # calls[c]) =>
              LET k == calls[c].inv IN
              /\ Len(log') = Len(log) + 1
              /\ Last(log').inv = k
              /\ IsSigned(Last(log'))
              /\ Carried(Last(log')) = <<>>
              /\ invs'[k].state = "err" => NotAccepted(reply', invs[k].op)
              /\ invs'[k].state = "ok" => ~NotAccepted(reply', invs[k].op)
              /\ invs'[k].state = "pending" =>
                    /\ invs[k].op = "obtain_certificate"
                    /\ calls'[c].pc = "into_vec"
                    /\ ~HttpFailure(reply')
    /\ \A c \in Callers :
          (/\ calls[c].pc = "into_vec"
           /\ \A n \in SignedOf(log, calls[c].inv) : Carried(log[n]) = <<>>
           /\ calls'[c] # calls[c]) =>
              LET k == calls[c].inv IN
              /\ log' = log
              /\ invs'[k].state \in {"ok", "err"}
              /\ invs'[k].state = "err" <=> NotAccepted(reply', invs[k].op)

C18_MissingHeaderTolerated == [][C18_MissingHeaderStep]_vars

C18_Witness ==
    /\ Len(invs) = 2
    /\ invs[1].op = "fetch_authorization" /\ invs[1].state = "err"
    /\ invs[2].op = "fetch_authorization" /\ invs[2].state = "ok"
    /\ \A k \in {1, 2} :
          /\ \A m \in Fetches(log, k) : log[m].got = Some(<<>>)
          /\ \E n \in SignedOf(log, k) : Carried(log[n]) = <<>>
    /\ Len(log) = 7

(***************************************************************************)
(* C19: fetch_authorization and obtain_certificate are POST-as-GET: the    *)
(* signed request has no payload at all (not an empty JSON object) and     *)
(* goes to exactly the URL the caller passed; new_order always goes to the *)
(* newOrder URL of the stored directory.                                   *)
(***************************************************************************)
C19_PostAsGetTargets ==
    \A k \in DOMAIN invs : \A n \in SignedOf(log, k) :
       LET req == log[n].req IN
       /\ req.method = "POST"
       /\ invs[k].op = "fetch_authorization" =>
             /\ req.payload = None
             /\ req.payload # Some(EmptyJsonObject)
             /\ req.uri = invs[k].args.auth_url
             /\ Unwrap(req.protected).url = invs[k].args.auth_url
       /\ invs[k].op = "obtain_certificate" =>
             /\ req.payload = None
             /\ req.payload # Some(EmptyJsonObject)
             /\ req.uri = invs[k].args.url
             /\ Unwrap(req.protected).url = invs[k].args.url
       /\ invs[k].op = "new_order" =>
             /\ req.payload # None
             /\ req.uri = Unwrap(client).directory.new_order
             /\ req.uri = GoodDirectoryBody.newOrder
             /\ Unwrap(req.protected).url = req.uri

C19_Witness ==
    /\ Len(invs) = 2
    /\ invs[1].op = "fetch_authorization"
    /\ invs[1].args.auth_url = "https://ca/acme/cert/1"
    /\ invs[2].op = "new_order"
    /\ \E n \in SignedOf(log, 1) :
          log[n].req.uri = "https://ca/acme/cert/1" /\ log[n].req.payload = None
    /\ \E n \in SignedOf(log, 2) : log[n].req.uri = GoodDirectoryBody.newOrder

(***************************************************************************)
(* C20: the client keeps no per-order state and enforces no ordering: on a *)
(* constructed client with no operation in flight every facade operation   *)
(* can be started, whatever ran before and however it ended; no step       *)
(* changes directory, key reference or kid; and the requests of an         *)
(* invocation are determined by its operation, its arguments and its own   *)
(* nonce alone.                                                            *)
(***************************************************************************)
EveryOperationStartable ==
    /\ ENABLED (\E c \in Callers, domains \in CallDomainLists,
                   resp \in NonceResponses(ca_nonces) :
                   new_order_get_nonce(c, domains, resp))
    /\ ENABLED (\E c \in Callers, auth_url \in CallUrls,
                   resp \in NonceResponses(ca_nonces) :
                   fetch_authorization_get_nonce(c, auth_url, resp))
    /\ ENABLED (\E c \in Callers, domain \in CallDomains, url \in CallUrls,
                   resp \in NonceResponses(ca_nonces) :
                   trigger_challenge_get_nonce(c, domain, url, resp))
    /\ ENABLED (\E c \in Callers, url \in CallUrls, csr \in CallCsrs,
                   resp \in NonceResponses(ca_nonces) :
                   send_csr_get_nonce(c, url, csr, resp))
    /\ ENABLED (\E c \in Callers, url \in CallUrls,
                   resp \in NonceResponses(ca_nonces) :
                   obtain_certificate_get_nonce(c, url, resp))

TargetOf(k) ==
    IF invs[k].op = "new_order" THEN Unwrap(client).directory.new_order
    ELSE IF invs[k].op = "fetch_authorization" THEN invs[k].args.auth_url
    ELSE invs[k].args.url

PayloadIs(k, payload) ==
    IF invs[k].op = "new_order"
    THEN payload = Some([identifiers |->
                           [i \in 1..Len(invs[k].args.domains) |->
                              [ty |-> "dns", value |-> invs[k].args.domains[i]]]])
    ELSE IF invs[k].op = "trigger_challenge" THEN payload = Some(<<>>)
    ELSE IF invs[k].op = "send_csr"
    THEN payload = Some([csr |-> encode_config(invs[k].args.csr)])
    ELSE payload = None

RequestsFromArgumentsOnly ==
    \A k \in DOMAIN invs : \A n \in Requests(log, k) :
       LET req == log[n].req IN
       IF req.method = "GET"
       THEN req = [method |-> "GET",
                   uri |-> Unwrap(client).directory.new_nonce,
                   protected |-> None, payload |-> None]
       ELSE /\ req.uri = TargetOf(k)
            /\ PayloadIs(k, req.payload)
            /\ Unwrap(req.protected) =
                  [nonce |-> Unwrap(log[n - 1].got), url |-> TargetOf(k),
                   kid |-> Some(Unwrap(client).kid), jwk |-> None]
            /\ log[n - 1].inv = k

C20_NoOrderingNoOrderState ==
    client # None =>
       /\ (Quiet /\ Len(invs) < MaxInv) => EveryOperationStartable
       /\ Unwrap(client).directory = Unwrap(ctor.directory)
       /\ Unwrap(client).key_pair = ctor.key_pair
       /\ DOMAIN Unwrap(client) = {"directory", "key_pair", "kid"}
       /\ RequestsFromArgumentsOnly

\* no step of any operation assigns a field of the client
C20_ClientStep ==
    client # None => client' = client

C20_ClientNeverChanges == [][C20_ClientStep]_vars

C20_Witness ==
    /\ client # None
    /\ Len(invs) = 2
    /\ invs[1].op = "obtain_certificate" /\ invs[1].state = "err"
    /\ invs[2].op = "send_csr" /\ invs[2].state = "ok"
    /\ \A k \in DOMAIN invs : invs[k].op # "new_order"
    /\ RequestsFromArgumentsOnly

====
